---- MODULE Spec2Model ----
(***************************************************************************)
(* A model of yvsfunc's window-tracking resampling helpers                 *)
(* (src/yvsfunc/resample.py) and of the repair clamp (src/yvsfunc/misc.py).*)
(*                                                                         *)
(* Python floats are modelled as exact rationals <<n, d>> in lowest terms  *)
(* with d > 0; ceil and floor are the mathematical ones.  Floating-point   *)
(* rounding is outside the model.                                          *)
(*                                                                         *)
(* A vs.VideoNode is a record [w, h, bits, axes, term]: its pixel          *)
(* dimensions, sample depth, the order of its two axes relative to the     *)
(* source plane, and the filter graph that produces it.  ResClip objects   *)
(* live in a heap (a sequence, the index is the object's identity) so that *)
(* the in-place methods and the copying ones can be told apart.            *)
(***************************************************************************)
EXTENDS Integers, Sequences, FiniteSets, TLC

VARIABLES heap, ret, calls, last, steps

vars == <<heap, ret, calls, last, steps>>

(* ------------------------------ bounds --------------------------------- *)

\* Largest pixel dimension of a source plane in the ResClip and descale runs.
MaxDim == 3
\* Largest number of calls in one run of the ResClip method machine.
MaxSteps == 2
\* Largest width of a luma plane handed to fdescale.
MaxLuma == 20

(* ----------------------------- rationals ------------------------------- *)

RECURSIVE GCD(_, _)
GCD(a, b) == IF b = 0 THEN a ELSE GCD(b, a % b)

Abs(a) == IF a < 0 THEN -a ELSE a

\* n/d in lowest terms with a positive denominator (d # 0).
Norm(n, d) ==
    LET g == GCD(Abs(n), Abs(d))
        s == IF d < 0 THEN -1 ELSE 1
    IN  <<(s * n) \div g, (s * d) \div g>>

R(n) == <<n, 1>>

RAdd(p, q) == Norm(p[1] * q[2] + q[1] * p[2], p[2] * q[2])
RSub(p, q) == Norm(p[1] * q[2] - q[1] * p[2], p[2] * q[2])
RMul(p, q) == Norm(p[1] * q[1], p[2] * q[2])
RDiv(p, q) == Norm(p[1] * q[2], p[2] * q[1])
RLt(p, q)  == p[1] * q[2] < q[1] * p[2]
RLe(p, q)  == p[1] * q[2] <= q[1] * p[2]
RAbs(p)    == <<Abs(p[1]), p[2]>>
RIsInt(p)  == p[2] = 1

\* math.floor and math.ceil: the results are Python ints.
Floor(p) == p[1] \div p[2]
Ceil(p)  == -((-p[1]) \div p[2])

\* Python's None for an optional argument; a given value is <<v>> for an int
\* and <<n, d>> for a float.
NoneV == <<>>

(* ------------------------- VapourSynth primitives ---------------------- *)

Term(op, args, refs) == [op |-> op, args |-> args, refs |-> refs]

\* A source plane handed to the library by its caller.
SourceNode(id, w, h, bits) ==
    [w |-> w, h |-> h, bits |-> bits, axes |-> <<"x", "y">>,
     term |-> Term("source", <<id>>, <<>>)]

std_Transpose(n) ==
    [w |-> n.h, h |-> n.w, bits |-> n.bits, axes |-> <<n.axes[2], n.axes[1]>>,
     term |-> Term("Transpose", <<>>, <<n.term>>)]

std_Crop(n, left, right, top, bottom) ==
    [w |-> n.w - left - right, h |-> n.h - top - bottom, bits |-> n.bits,
     axes |-> n.axes,
     term |-> Term("Crop", <<left, right, top, bottom>>, <<n.term>>)]

(* ------------------------------- ResClip ------------------------------- *)

\* ResClip.__init__
ResClip(clip, sx, sy, sw, sh) ==
    [clip |-> clip, sx |-> sx, sy |-> sy,
     sw |-> IF sw = NoneV THEN R(clip.w) ELSE sw,
     sh |-> IF sh = NoneV THEN R(clip.h) ELSE sh]

Window(r) == <<r.sx, r.sy, r.sw, r.sh>>

\* The outcome of a call: the heap after it, the identities of the ResClips it
\* returns (out), the raw nodes it returns (nodes), the primitives it invoked
\* in order, and the exception it raised (<<>> when it returned normally).
Outcome(h, out, nodes, cs, err) ==
    [h |-> h, out |-> out, nodes |-> nodes, calls |-> cs, err |-> err]

New(h, r) == Append(h, r)

\* ResClip.copy: a new object; an argument left at None is inherited.
copy(h, self, clip, sx, sy, sw, sh) ==
    LET s == h[self]
        c == IF clip = NoneV THEN s.clip ELSE clip
        x == IF sx = NoneV THEN s.sx ELSE sx
        y == IF sy = NoneV THEN s.sy ELSE sy
        w == IF sw = NoneV THEN s.sw ELSE sw
        v == IF sh = NoneV THEN s.sh ELSE sh
    IN  Outcome(New(h, ResClip(c, x, y, w, v)), <<Len(h) + 1>>, <<>>, <<>>, <<>>)

TransposeSwapsOnlyOffsets(h, self) ==
    [h EXCEPT ![self] = [clip |-> std_Transpose(h[self].clip),
                         sx |-> h[self].sy, sy |-> h[self].sx,
                         sw |-> h[self].sw, sh |-> h[self].sh]]

\* The in-place branch of ResClip.transpose.
transposeInplace(h, self) ==
    [h EXCEPT ![self] = [clip |-> std_Transpose(h[self].clip),
                         sx |-> h[self].sy, sy |-> h[self].sx,
                         sw |-> h[self].sh, sh |-> h[self].sw]]

TransposeAlwaysInplace(h, self, inplace) ==
    Outcome(transposeInplace(h, self), IF inplace THEN <<>> ELSE <<self>>, <<>>,
            <<"Transpose">>, <<>>)

\* ResClip.transpose
transpose(h, self, inplace) ==
    IF inplace
    THEN Outcome(transposeInplace(h, self), <<>>, <<>>, <<"Transpose">>, <<>>)
    ELSE LET c == copy(h, self, NoneV, NoneV, NoneV, NoneV, NoneV)
         IN  Outcome(transposeInplace(c.h, c.out[1]), c.out, <<>>,
                     <<"Transpose">>, <<>>)

CropAlwaysCrops(h, self, left, right, top, bottom) ==
    Outcome([h EXCEPT ![self].clip = std_Crop(@, left, right, top, bottom),
                      ![self].sx = RSub(@, R(left)),
                      ![self].sy = RSub(@, R(top))],
            <<>>, <<>>, <<"Crop">>, <<>>)

\* The in-place branch of ResClip.crop.
cropInplace(h, self, left, right, top, bottom) ==
    IF left = 0 /\ right = 0 /\ top = 0 /\ bottom = 0
    THEN Outcome(h, <<>>, <<>>, <<>>, <<>>)
    ELSE Outcome([h EXCEPT ![self].clip = std_Crop(@, left, right, top, bottom),
                           ![self].sx = RSub(@, R(left)),
                           ![self].sy = RSub(@, R(top))],
                 <<>>, <<>>, <<"Crop">>, <<>>)

\* ResClip.crop
crop(h, self, left, right, top, bottom, inplace) ==
    IF inplace
    THEN cropInplace(h, self, left, right, top, bottom)
    ELSE LET c == copy(h, self, NoneV, NoneV, NoneV, NoneV, NoneV)
             k == cropInplace(c.h, c.out[1], left, right, top, bottom)
         IN  Outcome(k.h, c.out, <<>>, k.calls, <<>>)

\* The in-place branch of ResClip.double.
doubleInplace(h, self, clip2x) ==
    [h EXCEPT ![self] = [clip |-> clip2x,
                         sx |-> RMul(h[self].sx, R(2)),
                         sy |-> RMul(h[self].sy, R(2)),
                         sw |-> RMul(h[self].sw, R(2)),
                         sh |-> RMul(h[self].sh, R(2))]]

\* ResClip.double
double(h, self, clip2x, inplace) ==
    IF inplace
    THEN Outcome(doubleInplace(h, self, clip2x), <<>>, <<>>, <<>>, <<>>)
    ELSE LET c == copy(h, self, NoneV, NoneV, NoneV, NoneV, NoneV)
         IN  Outcome(doubleInplace(c.h, c.out[1], clip2x), c.out, <<>>, <<>>, <<>>)

(* ------------------------------ kernels -------------------------------- *)

\* Kernel names are Python strings: sequences of characters.
Upper == <<"A", "B", "C", "D", "E", "I", "L", "N", "O", "P", "R", "S", "T", "U", "Z">>
Lower == <<"a", "b", "c", "d", "e", "i", "l", "n", "o", "p", "r", "s", "t", "u", "z">>

\* str.lower, one character.
LowerChar(ch) ==
    IF \E i \in 1..Len(Upper) : Upper[i] = ch
    THEN Lower[CHOOSE i \in 1..Len(Upper) : Upper[i] = ch]
    ELSE ch

\* str.lower
lower(str) == [i \in 1..Len(str) |-> LowerChar(str[i])]

\* str.startswith
startswith(str, prefix) ==
    /\ Len(str) >= Len(prefix)
    /\ SubSeq(str, 1, Len(prefix)) = prefix

bilinear == <<"b", "i", "l", "i", "n", "e", "a", "r">>
bicubic  == <<"b", "i", "c", "u", "b", "i", "c">>
lanczos  == <<"l", "a", "n", "c", "z", "o", "s">>
spline16 == <<"s", "p", "l", "i", "n", "e", "1", "6">>
spline36 == <<"s", "p", "l", "i", "n", "e", "3", "6">>
spline64 == <<"s", "p", "l", "i", "n", "e", "6", "4">>

NormalizeKernelKeepsCase(kernel) ==
    IF startswith(kernel, <<"d", "e">>) THEN SubSeq(kernel, 3, Len(kernel)) ELSE kernel

\* kernel = kernel.lower(); a leading 'de' is cut once.
NormalizeKernel(kernel) ==
    LET k == lower(kernel)
    IN  IF startswith(k, <<"d", "e">>) THEN SubSeq(k, 3, Len(k)) ELSE k

InvalidKernel(kernel) ==
    <<"ValueError", "invalid kernel specified: ", kernel>>

\* A resolved primitive: the plugin function and the keyword arguments bound
\* to it by functools.partial (floats flattened to numerator, denominator).
Primitive(fn, bound) == [err |-> <<>>, fn |-> fn, bound |-> bound]
Unresolved(err) == [err |-> err, fn |-> "", bound |-> <<>>]

\* _get_descaler
get_descaler(kernel, b, c, taps) ==
    IF kernel = bilinear THEN Primitive("descale.Debilinear", <<>>)
    ELSE IF kernel = bicubic THEN Primitive("descale.Debicubic", b \o c)
    ELSE IF kernel = lanczos THEN Primitive("descale.Delanczos", <<taps>>)
    ELSE IF kernel = spline16 THEN Primitive("descale.Despline16", <<>>)
    ELSE IF kernel = spline36 THEN Primitive("descale.Despline36", <<>>)
    ELSE IF kernel = spline64 THEN Primitive("descale.Despline64", <<>>)
    ELSE Unresolved(InvalidKernel(kernel))

ScalerWithoutSpline36(kernel, b, c, taps) ==
    IF kernel = bilinear THEN Primitive("resize.Bilinear", <<>>)
    ELSE IF kernel = bicubic THEN Primitive("resize.Bicubic", b \o c)
    ELSE IF kernel = lanczos THEN Primitive("resize.Lanczos", <<taps>>)
    ELSE IF kernel = spline16 THEN Primitive("resize.Spline16", <<>>)
    ELSE IF kernel = spline64 THEN Primitive("resize.Spline64", <<>>)
    ELSE Unresolved(InvalidKernel(kernel))

\* _get_scaler
get_scaler(kernel, b, c, taps) ==
    IF kernel = bilinear THEN Primitive("resize.Bilinear", <<>>)
    ELSE IF kernel = bicubic THEN Primitive("resize.Bicubic", b \o c)
    ELSE IF kernel = lanczos THEN Primitive("resize.Lanczos", <<taps>>)
    ELSE IF kernel = spline16 THEN Primitive("resize.Spline16", <<>>)
    ELSE IF kernel = spline36 THEN Primitive("resize.Spline36", <<>>)
    ELSE IF kernel = spline64 THEN Primitive("resize.Spline64", <<>>)
    ELSE Unresolved(InvalidKernel(kernel))

\* Invoking a resolved resampling primitive on node n: a width x height plane.
\* The descale plugin and the resizer keep the sample depth of their input.
Resample(p, n, width, height, src_left, src_top, src_width, src_height) ==
    [w |-> width, h |-> height, bits |-> n.bits, axes |-> n.axes,
     term |-> Term(p.fn,
                   <<width, height>> \o src_left \o src_top \o src_width
                       \o src_height \o p.bound,
                   <<n.term>>)]

\* std.ShufflePlanes(0, vs.GRAY): the first plane, alone.
std_ShufflePlanes(n) ==
    [w |-> n.w, h |-> n.h, bits |-> n.bits, axes |-> n.axes,
     term |-> Term("ShufflePlanes", <<0>>, <<n.term>>)]

\* fmtc.bitdepth(bits=...); range is 1 for fulls=False, fulld=True and 0 when
\* neither is given.
fmtc_bitdepth(n, bits, range) ==
    [w |-> n.w, h |-> n.h, bits |-> bits, axes |-> n.axes,
     term |-> Term("bitdepth", <<bits, range>>, <<n.term>>)]

\* std.Expr([a, b], 'x y - abs')
std_ExprAbsDiff(a, b) ==
    [w |-> a.w, h |-> a.h, bits |-> a.bits, axes |-> a.axes,
     term |-> Term("Expr x y - abs", <<>>, <<a.term, b.term>>)]

(* ------------------------------- descale ------------------------------- *)

\* A clip argument: a ResClip (its identity in the heap) or a raw node.
ResArg(id) == [isNode |-> FALSE, id |-> id, node |-> <<>>]
NodeArg(n) == [isNode |-> TRUE, id |-> 0, node |-> n]

\* if isinstance(clip, vs.VideoNode): clip = ResClip(clip)
Wrap(h, clip) ==
    IF clip.isNode
    THEN [h |-> New(h, ResClip(clip.node, R(0), R(0), NoneV, NoneV)),
          id |-> Len(h) + 1]
    ELSE [h |-> h, id |-> clip.id]

\* clip.std.ShufflePlanes: a ResClip forwards the attribute to its node.
NodeOf(h, clip) == IF clip.isNode THEN clip.node ELSE h[clip.id].clip

ProjectWindowUnscaledSize(clip, src_left, src_top, src_width, src_height) ==
    LET ratio_w == RDiv(src_width, R(clip.clip.w))
        ratio_h == RDiv(src_height, R(clip.clip.h))
    IN  [sx |-> RAdd(src_left, RMul(ratio_w, clip.sx)),
         sw |-> clip.sw,
         sy |-> RAdd(src_top, RMul(ratio_h, clip.sy)),
         sh |-> clip.sh]

ProjectWindowRatioOfWindow(clip, src_left, src_top, src_width, src_height) ==
    LET ratio_w == RDiv(src_width, clip.sw)
        ratio_h == RDiv(src_height, clip.sh)
    IN  [sx |-> RAdd(src_left, RMul(ratio_w, clip.sx)),
         sw |-> RMul(ratio_w, clip.sw),
         sy |-> RAdd(src_top, RMul(ratio_h, clip.sy)),
         sh |-> RMul(ratio_h, clip.sh)]

\* descale: the window of the downscaled plane.  The ratios divide by the
\* buffer's pixel dimensions (clip.width is forwarded to the node).
ProjectWindow(clip, src_left, src_top, src_width, src_height) ==
    LET ratio_w == RDiv(src_width, R(clip.clip.w))
        ratio_h == RDiv(src_height, R(clip.clip.h))
    IN  [sx |-> RAdd(src_left, RMul(ratio_w, clip.sx)),
         sw |-> RMul(ratio_w, clip.sw),
         sy |-> RAdd(src_top, RMul(ratio_h, clip.sy)),
         sh |-> RMul(ratio_h, clip.sh)]

DescaleDiffKeepsProjectedWindow(h, clip, dst, down, diff, calls0) ==
    LET h1 == New(h, ResClip(down, dst.sx, dst.sy, dst.sw, dst.sh))
        h2 == New(h1, ResClip(diff, dst.sx, dst.sy, dst.sw, dst.sh))
    IN  Outcome(h2, <<Len(h) + 1, Len(h) + 2>>, <<>>, calls0, <<>>)

\* descale: the list returned with with_diff=True.
DescaleDiffReturn(h, clip, dst, down, diff, calls0) ==
    LET h1 == New(h, ResClip(down, dst.sx, dst.sy, dst.sw, dst.sh))
        h2 == New(h1, ResClip(diff, clip.sx, clip.sy, clip.sw, clip.sh))
    IN  Outcome(h2, <<Len(h) + 1, Len(h) + 2>>, <<>>, calls0, <<>>)

\* descale
descale(h0, clip0, width, height, kernel0, b, c, taps, src_left, src_top, src_width0, src_height0, with_diff) ==
    LET wr         == Wrap(h0, clip0)
        h          == wr.h
        clip       == h[wr.id]
        src_width  == IF src_width0 = NoneV THEN R(width) ELSE src_width0
        src_height == IF src_height0 = NoneV THEN R(height) ELSE src_height0
        dst        == ProjectWindow(clip, src_left, src_top, src_width, src_height)
        clip_depth == clip.clip.bits
        y32        == fmtc_bitdepth(std_ShufflePlanes(clip.clip), 32, 0)
        kernel     == NormalizeKernel(kernel0)
        descaler   == get_descaler(kernel, b, c, taps)
        down       == Resample(descaler, y32, width, height,
                               src_left, src_top, src_width, src_height)
        scaler     == get_scaler(kernel, b, c, taps)
        up         == Resample(scaler, down, y32.w, y32.h,
                               src_left, src_top, src_width, src_height)
        diff       == std_ExprAbsDiff(y32, up)
        pre        == <<"ShufflePlanes", "bitdepth">>
    IN  IF descaler.err # <<>>
        THEN Outcome(h, <<>>, <<>>, pre, descaler.err)
        ELSE IF with_diff
        THEN IF scaler.err # <<>>
             THEN Outcome(h, <<>>, <<>>, pre \o <<descaler.fn>>, scaler.err)
             ELSE IF clip_depth # 32
             THEN DescaleDiffReturn(h, clip, dst,
                      fmtc_bitdepth(down, 32, 0), fmtc_bitdepth(diff, 32, 1),
                      pre \o <<descaler.fn, scaler.fn, "Expr", "bitdepth", "bitdepth">>)
             ELSE DescaleDiffReturn(h, clip, dst, down, diff,
                      pre \o <<descaler.fn, scaler.fn, "Expr">>)
        ELSE Outcome(New(h, ResClip(fmtc_bitdepth(down, clip_depth, 0),
                                    dst.sx, dst.sy, dst.sw, dst.sh)),
                     <<Len(h) + 1>>, <<>>,
                     pre \o <<descaler.fn, "bitdepth">>, <<>>)

(* ------------------------------- bdescale ------------------------------ *)

\* std.AddBorders(color=color, left=, right=, top=, bottom=)
std_AddBorders(n, color, left, right, top, bottom) ==
    [w |-> n.w + left + right, h |-> n.h + top + bottom, bits |-> n.bits,
     axes |-> n.axes,
     term |-> Term("AddBorders", <<left, right, top, bottom>> \o color, <<n.term>>)]

ExtraBordersClampDropsRemainder(before, after, ratio, src_start, src_size, size) ==
    LET first      == RSub(RMul(R(before), ratio), src_start)
        first_int0 == Ceil(first)
        first_int  == IF first_int0 < 0 THEN 0 ELSE first_int0
        second     == RSub(RAdd(RAdd(RMul(R(after), ratio), src_start), src_size), R(size))
        second_int0 == Ceil(second)
        second_int == IF second_int0 < 0 THEN 0 ELSE second_int0
    IN  [first |-> first, first_int |-> first_int,
         second |-> second, second_int |-> second_int]

\* bdescale, one axis: the extra pixels needed before (left, top) and after
\* (right, bottom) the plane and their integer counts.  A negative count
\* before is clamped with the remainder kept; after, it is only clamped.
ExtraBorders(before, after, ratio, src_start, src_size, size) ==
    LET first0     == RSub(RMul(R(before), ratio), src_start)
        first_int0 == Ceil(first0)
        first      == IF first_int0 < 0 THEN RSub(first0, R(first_int0)) ELSE first0
        first_int  == IF first_int0 < 0 THEN 0 ELSE first_int0
        second     == RSub(RAdd(RAdd(RMul(R(after), ratio), src_start), src_size), R(size))
        second_int0 == Ceil(second)
        second_int == IF second_int0 < 0 THEN 0 ELSE second_int0
    IN  [first |-> first, first_int |-> first_int,
         second |-> second, second_int |-> second_int]

CroppingArgsForgetRight(hor, ver, width, height) ==
    [src_left |-> RSub(R(hor.first_int), hor.first),
     src_width |-> RAdd(RAdd(hor.first, hor.second), R(width)),
     width |-> hor.first_int + width,
     src_top |-> RSub(R(ver.first_int), ver.first),
     src_height |-> RAdd(RAdd(ver.first, ver.second), R(height)),
     height |-> ver.first_int + ver.second_int + height]

\* bdescale: descale_cropping_args
descale_cropping_args(hor, ver, width, height) ==
    [src_left |-> RSub(R(hor.first_int), hor.first),
     src_width |-> RAdd(RAdd(hor.first, hor.second), R(width)),
     width |-> hor.first_int + hor.second_int + width,
     src_top |-> RSub(R(ver.first_int), ver.first),
     src_height |-> RAdd(RAdd(ver.first, ver.second), R(height)),
     height |-> ver.first_int + ver.second_int + height]

BorderArgsComputed(left, right, top, bottom, hor, ver) ==
    [left |-> hor.first_int, right |-> hor.second_int,
     top |-> ver.first_int, bottom |-> ver.second_int]

\* bdescale: src_border_args, the borders the caller asked for.
src_border_args(left, right, top, bottom, hor, ver) ==
    [left |-> left, right |-> right, top |-> top, bottom |-> bottom]

\* bdescale: descale_border_args, the computed integer borders.
descale_border_args(hor, ver) ==
    [left |-> hor.first_int, right |-> hor.second_int,
     top |-> ver.first_int, bottom |-> ver.second_int]

\* The nodes of the ResClips a call returned.
Clips(h, out) == [i \in 1..Len(out) |-> h[out[i]].clip]

ZeroBordersDropSrcRect(h, clip, width, height, kernel, b, c, taps, src_left, src_top, src_width, src_height, with_diff) ==
    LET d == descale(h, clip, width, height, kernel, b, c, taps,
                     R(0), R(0), NoneV, NoneV, with_diff)
    IN  Outcome(d.h, <<>>, Clips(d.h, d.out), d.calls, d.err)

\* bdescale with four zero borders: descale, and the nodes of what it returns.
bdescaleZeroBorders(h, clip, width, height, kernel, b, c, taps, src_left, src_top, src_width, src_height, with_diff) ==
    LET d == descale(h, clip, width, height, kernel, b, c, taps,
                     src_left, src_top, src_width, src_height, with_diff)
    IN  Outcome(d.h, <<>>, Clips(d.h, d.out), d.calls, d.err)

\* bdescale: the crops after the descale d, and what is returned.
bdescaleCrop(d, db, sb, with_diff) ==
    LET pre == <<"ShufflePlanes", "AddBorders">> \o d.calls
    IN  IF d.err # <<>>
        THEN Outcome(d.h, <<>>, <<>>, pre, d.err)
        ELSE LET down == cropInplace(d.h, d.out[1], db.left, db.right, db.top, db.bottom)
             IN  IF with_diff
                 THEN LET diff == cropInplace(down.h, d.out[2], sb.left, sb.right,
                                              sb.top, sb.bottom)
                      IN  Outcome(diff.h, <<>>, Clips(diff.h, d.out),
                                  pre \o down.calls \o diff.calls, <<>>)
                 ELSE Outcome(down.h, <<>>, Clips(down.h, d.out),
                              pre \o down.calls, <<>>)

\* bdescale: add the caller's borders to the plane y and descale it with
\* the cropping arguments.
bdescaleDescale(h1, y, args, db, sb, kernel, b, c, taps, color, with_diff) ==
    LET h2 == [h1 EXCEPT ![y].clip = std_AddBorders(@, color, sb.left, sb.right,
                                                    sb.top, sb.bottom)]
    IN  bdescaleCrop(descale(h2, ResArg(y), args.width, args.height, kernel, b, c, taps,
                             args.src_left, args.src_top, args.src_width,
                             args.src_height, with_diff),
                     db, sb, with_diff)

\* bdescale: the extra borders of both axes, then the rest.
bdescaleBorders(h1, y, hor, ver, width, height, kernel, b, c, taps, left, right, top, bottom, color, with_diff) ==
    bdescaleDescale(h1, y, descale_cropping_args(hor, ver, width, height),
                    descale_border_args(hor, ver),
                    src_border_args(left, right, top, bottom, hor, ver),
                    kernel, b, c, taps, color, with_diff)

\* bdescale with a border: add the borders, descale, crop.
bdescaleBordered(h, clip, width, height, kernel, b, c, taps, src_left, src_top, src_width0, src_height0, left, right, top, bottom, color, with_diff) ==
    LET src_width  == IF src_width0 = NoneV THEN R(width) ELSE src_width0
        src_height == IF src_height0 = NoneV THEN R(height) ELSE src_height0
        plane   == std_ShufflePlanes(NodeOf(h, clip))
        ratio_w == RDiv(src_width, R(plane.w))
        ratio_h == RDiv(src_height, R(plane.h))
    IN  bdescaleBorders(New(h, ResClip(plane, R(0), R(0), NoneV, NoneV)), Len(h) + 1,
                        ExtraBorders(left, right, ratio_w, src_left, src_width, width),
                        ExtraBorders(top, bottom, ratio_h, src_top, src_height, height),
                        width, height, kernel, b, c, taps,
                        left, right, top, bottom, color, with_diff)

\* bdescale
bdescale(h, clip, width, height, kernel, b, c, taps, src_left, src_top, src_width, src_height, left, right, top, bottom, color, with_diff) ==
    IF left = 0 /\ top = 0 /\ right = 0 /\ bottom = 0
    THEN bdescaleZeroBorders(h, clip, width, height, kernel, b, c, taps,
                             src_left, src_top, src_width, src_height, with_diff)
    ELSE bdescaleBordered(h, clip, width, height, kernel, b, c, taps,
                          src_left, src_top, src_width, src_height,
                          left, right, top, bottom, color, with_diff)

(* ------------------------------- fdescale ------------------------------ *)

StripRoundsUp(extent, ratio, base0, align) ==
    LET src  == RMul(R(extent), ratio)
        base == IF base0 = NoneV THEN Ceil(RDiv(src, R(align))) * align ELSE base0[1]
        size == base - 2 * Ceil(RDiv(RSub(R(base), src), R(2)))
    IN  [src |-> src, base |-> base, size |-> size,
         offset |-> RDiv(RSub(R(size), src), R(2))]

StripIgnoresParity(extent, ratio, base0, align) ==
    LET src  == RMul(R(extent), ratio)
        base == IF base0 = NoneV THEN Ceil(RDiv(src, R(align))) * align ELSE base0[1]
        size == base - Floor(RSub(R(base), src))
    IN  [src |-> src, base |-> base, size |-> size,
         offset |-> RDiv(RSub(R(size), src), R(2))]

\* fdescale, one axis: the source extent y.width * ratio, the base (given, or
\* the next multiple of align), the stripped size and the centring offset.
Strip(extent, ratio, base0, align) ==
    LET src  == RMul(R(extent), ratio)
        base == IF base0 = NoneV THEN Ceil(RDiv(src, R(align))) * align ELSE base0[1]
        size == base - 2 * Floor(RDiv(RSub(R(base), src), R(2)))
    IN  [src |-> src, base |-> base, size |-> size,
         offset |-> RDiv(RSub(R(size), src), R(2))]

RatioRejectedOutsideClosedRange(ratio) == RLt(ratio, R(0)) \/ RLt(R(1), ratio)

\* fdescale: if ratio <= 0 or ratio >= 1
RatioRejected(ratio) == RLe(ratio, R(0)) \/ RLe(R(1), ratio)

FdescaleKeepsCallerWindow(h, clip, ratio, base_width, base_height, kernel, b, c, taps, src_left, src_top, src_width, src_height, with_diff) ==
    IF RatioRejected(ratio)
    THEN Outcome(h, <<>>, <<>>, <<>>,
                 <<"ValueError", "fdescale: ratio must be within (0, 1)">>)
    ELSE LET plane == std_ShufflePlanes(NodeOf(h, clip))
             win   == IF clip.isNode THEN ResClip(plane, R(0), R(0), NoneV, NoneV)
                      ELSE h[clip.id]
             h1    == New(h, ResClip(plane, win.sx, win.sy, win.sw, win.sh))
             y     == Len(h) + 1
             hor   == Strip(plane.w, ratio, base_width, 16)
             ver   == Strip(plane.h, ratio, base_height, 18)
             d     == descale(h1, ResArg(y), hor.size, ver.size, kernel, b, c, taps,
                              hor.offset, ver.offset, hor.src, ver.src, with_diff)
         IN  Outcome(d.h, d.out, d.nodes, <<"ShufflePlanes">> \o d.calls, d.err)

\* fdescale.  The src_* arguments it is given are overwritten before use.
fdescale(h, clip, ratio, base_width, base_height, kernel, b, c, taps, src_left, src_top, src_width, src_height, with_diff) ==
    IF RatioRejected(ratio)
    THEN Outcome(h, <<>>, <<>>, <<>>,
                 <<"ValueError", "fdescale: ratio must be within (0, 1)">>)
    ELSE LET plane == std_ShufflePlanes(NodeOf(h, clip))
             h1    == New(h, ResClip(plane, R(0), R(0), NoneV, NoneV))
             y     == Len(h) + 1
             hor   == Strip(plane.w, ratio, base_width, 16)
             ver   == Strip(plane.h, ratio, base_height, 18)
             d     == descale(h1, ResArg(y), hor.size, ver.size, kernel, b, c, taps,
                              hor.offset, ver.offset, hor.src, ver.src, with_diff)
         IN  Outcome(d.h, d.out, d.nodes, <<"ShufflePlanes">> \o d.calls, d.err)

(* ------------------------ interpolate and ee2x ------------------------- *)

\* A filter argument is None or a callable, written <<name of the plugin
\* function it calls>>.

\* get_nnedi3(): the default fast filter.
get_nnedi3 == <<"znedi3.nnedi3">>

Flag(b) == IF b THEN 1 ELSE 0

\* deint(clip, field=field, dh=dh): a plane of doubled height when dh.
Deint(f, n, field, dh) ==
    [w |-> n.w, h |-> IF dh THEN 2 * n.h ELSE n.h, bits |-> n.bits, axes |-> n.axes,
     term |-> Term(f[1], <<field, Flag(dh)>>, <<n.term>>)]

\* eedi3(clip, field=field, dh=dh, vcheck=vcheck, sclip=sclip)
DeintChecked(f, n, field, dh, vcheck, sclip) ==
    [w |-> n.w, h |-> IF dh THEN 2 * n.h ELSE n.h, bits |-> n.bits, axes |-> n.axes,
     term |-> Term(f[1], <<field, Flag(dh), vcheck>>, <<n.term, sclip.term>>)]

SelectDeintPrefersFast(nnedi3, eedi3) ==
    IF nnedi3 = NoneV
    THEN IF eedi3 = NoneV THEN get_nnedi3 ELSE eedi3
    ELSE nnedi3

\* interpolate: the single filter to run, or None for nnedi3 + eedi3.
SelectDeint(nnedi3, eedi3) ==
    IF nnedi3 = NoneV
    THEN IF eedi3 = NoneV THEN get_nnedi3 ELSE eedi3
    ELSE IF eedi3 = NoneV THEN nnedi3 ELSE NoneV

DefaultFieldIgnoresOffset(clip, field, dh) ==
    IF field # NoneV THEN field[1] ELSE 1

\* interpolate: the field used, defaulted when the caller leaves it unset.
OutputField(clip, field, dh) ==
    IF field # NoneV THEN field[1]
    ELSE IF dh THEN (IF RLt(R(0), clip.sy) THEN 1 ELSE 0)
    ELSE 1

\* interpolate, once the clip is a ResClip: clip is its identity in h.
interpolateOn(h, clip, nnedi3, eedi3, deint, field, dh, with_nn) ==
    LET sh == IF dh THEN RMul(h[clip].sh, R(2)) ELSE h[clip].sh
        sy == IF dh THEN RSub(RAdd(RMul(h[clip].sy, R(2)), <<1, 2>>), R(field))
              ELSE h[clip].sy
    IN  IF deint = NoneV
        THEN LET ip_nn == Deint(nnedi3, h[clip].clip, field, dh)
                 ip_ee == DeintChecked(eedi3, h[clip].clip, field, dh, 3, ip_nn)
                 ee    == copy(h, clip, ip_ee, NoneV, sy, NoneV, sh)
             IN  IF with_nn
                 THEN Outcome(copy(ee.h, clip, ip_nn, NoneV, sy, NoneV, sh).h,
                              <<Len(h) + 1, Len(h) + 2>>, <<>>,
                              <<nnedi3[1], eedi3[1]>>, <<>>)
                 ELSE Outcome(ee.h, ee.out, <<>>, <<nnedi3[1], eedi3[1]>>, <<>>)
        ELSE LET c == copy(h, clip, Deint(deint, h[clip].clip, field, dh),
                           NoneV, sy, NoneV, sh)
             IN  Outcome(c.h, c.out, <<>>, <<deint[1]>>, <<>>)

\* interpolate, after the isinstance wrap wr.
interpolateWrapped(wr, nnedi3, eedi3, field0, dh, with_nn) ==
    interpolateOn(wr.h, wr.id, nnedi3, eedi3, SelectDeint(nnedi3, eedi3),
                  OutputField(wr.h[wr.id], field0, dh), dh, with_nn)

\* interpolate
interpolate(h0, clip0, nnedi3, eedi3, field0, dh, with_nn) ==
    interpolateWrapped(Wrap(h0, clip0), nnedi3, eedi3, field0, dh, with_nn)

\* aa2x: the last transpose and the return.  second is what the second
\* interpolate returned.
aa2xOutput(second, cs) ==
    Outcome(transposeInplace(second.h, second.out[1]), second.out, <<>>,
            cs \o second.calls \o <<"Transpose">>, <<>>)

Aa2xSecondWithoutTranspose(first, nnedi3, eedi3) ==
    aa2xOutput(interpolate(first.h, ResArg(first.out[1]), nnedi3, eedi3, NoneV, TRUE, FALSE),
               first.calls \o <<"Transpose">>)

\* aa2x after the first interpolation: up1.transpose(), then interpolate.
aa2xSecond(first, nnedi3, eedi3) ==
    aa2xOutput(interpolate(transposeInplace(first.h, first.out[1]), ResArg(first.out[1]),
                           nnedi3, eedi3, NoneV, TRUE, FALSE),
               first.calls \o <<"Transpose">>)

\* aa2x
aa2x(h0, clip0, nnedi3, eedi3) ==
    aa2xSecond(interpolateWrapped(Wrap(h0, clip0), nnedi3, eedi3, NoneV, TRUE, FALSE),
               nnedi3, eedi3)

Ee2xRejectsAfterWrapping(h0, clip0) ==
    Outcome(Wrap(h0, clip0).h, <<>>, <<>>, <<>>,
            <<"ValueError", "ee2x: both nnedi3 and eedi3 must be available">>)

\* ee2x: the raise that precedes everything else.
ee2xRejected(h0, clip0) ==
    Outcome(h0, <<>>, <<>>, <<>>,
            <<"ValueError", "ee2x: both nnedi3 and eedi3 must be available">>)

\* ee2x: the last transposes and the return.  c is nn_up2.copy(...).
ee2xOutput(c, nn_up2, cs, with_nn) ==
    LET ee_up2 == c.out[1]
        h2     == transposeInplace(c.h, ee_up2)
    IN  IF with_nn
        THEN Outcome(transposeInplace(h2, nn_up2), <<ee_up2, nn_up2>>, <<>>,
                     cs \o <<"Transpose", "Transpose">>, <<>>)
        ELSE Outcome(h2, <<ee_up2>>, <<>>, cs \o <<"Transpose">>, <<>>)

\* ee2x: eedi3 on ee_up1 with nn_up2 as sclip.  second is what the second
\* interpolate returned.
ee2xEdge(second, ee_up1, eedi3, cs, with_nn) ==
    ee2xOutput(copy(second.h, second.out[1],
                    DeintChecked(eedi3, second.h[ee_up1].clip, 1, TRUE, 3,
                                 second.h[second.out[1]].clip),
                    NoneV, NoneV, NoneV, NoneV),
               second.out[1], cs \o second.calls \o <<eedi3[1]>>, with_nn)

Ee2xSecondDefaultsField(first, nnedi3, eedi3, with_nn) ==
    LET nn_up1 == first.out[1]
        ee_up1 == first.out[2]
        h1     == transposeInplace(transposeInplace(first.h, nn_up1), ee_up1)
    IN  ee2xEdge(interpolate(h1, ResArg(nn_up1), nnedi3, NoneV, NoneV, TRUE, FALSE),
                 ee_up1, eedi3, first.calls \o <<"Transpose", "Transpose">>, with_nn)

\* ee2x after the first interpolation.  interpolate(..., with_nn=True)
\* returns [edge-directed, fast]; nn_up1 and ee_up1 are the names the code
\* unpacks that list into.
ee2xSecond(first, nnedi3, eedi3, with_nn) ==
    LET nn_up1 == first.out[1]
        ee_up1 == first.out[2]
        h1     == transposeInplace(transposeInplace(first.h, nn_up1), ee_up1)
    IN  ee2xEdge(interpolate(h1, ResArg(nn_up1), nnedi3, NoneV, <<1>>, TRUE, FALSE),
                 ee_up1, eedi3, first.calls \o <<"Transpose", "Transpose">>, with_nn)

\* ee2x
ee2x(h0, clip0, nnedi3, eedi3, with_nn) ==
    IF nnedi3 = NoneV \/ eedi3 = NoneV
    THEN ee2xRejected(h0, clip0)
    ELSE ee2xSecond(interpolateWrapped(Wrap(h0, clip0), nnedi3, eedi3, NoneV, TRUE, TRUE),
                    nnedi3, eedi3, with_nn)

(* -------------------------------- repair -------------------------------- *)

mode_list == {1, 2, 3, 4, 11, 12, 13, 14}

\* The neighbourhood part of the expression: the raw 8 neighbours, or, for a
\* sub-pixel shift p, their blends with weights p, q = 1 - p, pp, qq and pq.
RepairPixels(sp, pixel) ==
    IF sp
    THEN LET p == pixel
             q == RSub(R(1), pixel)
         IN  <<1>> \o p \o q \o RMul(p, p) \o RMul(q, q) \o RMul(p, q)
    ELSE <<0>>

\* The clamp part: sort9 with dup{9 - mode}, dup{mode - 1} for modes 1-4,
\* sort8 with dup{8 - (mode - 10)}, dup{(mode - 10) - 1} for modes 11-14.
RepairExpr(mode) ==
    IF mode <= 4
    THEN <<9, 9 - mode, mode - 1>>
    ELSE <<8, 8 - (mode - 10), (mode - 10) - 1>>

\* core.akarin.Expr([clip, repairclip], pixels + expr)
akarin_Expr(clip, repairclip, pixels, expr) ==
    [w |-> clip.w, h |-> clip.h, bits |-> clip.bits, axes |-> clip.axes,
     term |-> Term("akarin.Expr", pixels \o expr, <<clip.term, repairclip.term>>)]

\* repair for a positive mode: the mode and pixel checks, then the expression.
repairPositive(h, clip, repairclip, mode, pixel0) ==
    IF mode \notin mode_list
    THEN Outcome(h, <<>>, <<>>, <<>>,
                 <<"ValueError", "repair: only modes 1-4 and 11-14 are implemented.">>)
    ELSE LET pixel == IF pixel0 = NoneV THEN NoneV ELSE RAbs(pixel0)
             sp    == IF pixel0 = NoneV THEN FALSE ELSE pixel # R(1)
         IN  IF pixel0 # NoneV /\ RLt(R(1), pixel)
             THEN Outcome(h, <<>>, <<>>, <<>>,
                          <<"ValueError", "repair: Shifting more than 1 pixel is not supported.">>)
             ELSE Outcome(h, <<>>,
                          <<akarin_Expr(clip, repairclip, RepairPixels(sp, pixel),
                                        RepairExpr(mode))>>,
                          <<"akarin.Expr">>, <<>>)

RepairNegativeKeepsRoles(h, clip, repairclip, mode, pixel) ==
    IF mode = 0
    THEN Outcome(h, <<>>, <<clip>>, <<>>, <<>>)
    ELSE IF mode < 0
    THEN repairPositive(h, clip, repairclip, -mode, pixel)
    ELSE repairPositive(h, clip, repairclip, mode, pixel)

RepairChecksPixelFirst(h, clip, repairclip, mode, pixel) ==
    IF pixel # NoneV /\ RLt(R(1), RAbs(pixel))
    THEN Outcome(h, <<>>, <<>>, <<>>,
                 <<"ValueError", "repair: Shifting more than 1 pixel is not supported.">>)
    ELSE IF mode = 0
    THEN Outcome(h, <<>>, <<clip>>, <<>>, <<>>)
    ELSE IF mode < 0
    THEN repairPositive(h, repairclip, clip, -mode, pixel)
    ELSE repairPositive(h, clip, repairclip, mode, pixel)

\* repair.  The call it makes of itself for a negative mode has a positive
\* mode, so it goes straight to the checks and the expression.
repair(h, clip, repairclip, mode, pixel) ==
    IF mode = 0
    THEN Outcome(h, <<>>, <<clip>>, <<>>, <<>>)
    ELSE IF mode < 0
    THEN repairPositive(h, repairclip, clip, -mode, pixel)
    ELSE repairPositive(h, clip, repairclip, mode, pixel)

(* ------------------- the ResClip method machine (Spec) ----------------- *)

\* The windows a caller constructs a ResClip with: (sx, sy, sw, sh).
Windows ==
    { <<R(0), R(0), NoneV, NoneV>>,
      <<<<1, 2>>, R(0), NoneV, <<3, 2>>>>,
      <<R(-1), <<1, 2>>, <<5, 2>>, NoneV>>,
      <<R(0), <<3, 4>>, R(2), R(1)>>,
      <<R(0), R(0), <<3, 2>>, R(1)>> }

Dims == 2..MaxDim

Depths == {8, 32}

\* The margins handed to crop: (left, right, top, bottom).
Margins == { <<0, 0, 0, 0>>, <<1, 0, 0, 0>>, <<0, 1, 1, 0>>, <<0, 0, 0, 1>> }

NoReturn == [out |-> <<>>, nodes |-> <<>>, err |-> <<>>]

InitHeap(ws, hs, bs) ==
    \E w \in ws, h \in hs, b \in bs, win \in Windows :
        heap = <<ResClip(SourceNode(1, w, h, b), win[1], win[2], win[3], win[4])>>

Init ==
    /\ InitHeap(Dims, Dims, {8})
    /\ ret = NoReturn
    /\ calls = <<>>
    /\ last = [op |-> "init"]
    /\ steps = 0

\* The state after a call that returned or raised: the heap, what was
\* returned, and the primitives the call invoked.
Finish(o) ==
    /\ heap' = o.h
    /\ ret' = [out |-> o.out, nodes |-> o.nodes, err |-> o.err]
    /\ calls' = o.calls
    /\ steps' = steps + 1

TransposeCall ==
    /\ steps < MaxSteps
    /\ \E self \in 1..Len(heap), inplace \in BOOLEAN :
        /\ Finish(transpose(heap, self, inplace))
        /\ last' = [op |-> "transpose", self |-> self, inplace |-> inplace,
                    pre |-> heap[self]]

\* std.Crop refuses margins that leave no pixel.
CropCall ==
    /\ steps < MaxSteps
    /\ \E self \in 1..Len(heap), m \in Margins, inplace \in BOOLEAN :
        /\ m[1] + m[2] < heap[self].clip.w
        /\ m[3] + m[4] < heap[self].clip.h
        /\ Finish(crop(heap, self, m[1], m[2], m[3], m[4], inplace))
        /\ last' = [op |-> "crop", self |-> self, inplace |-> inplace,
                    pre |-> heap[self], margins |-> m]

\* The plane an external centred 2x upscaler makes of n.
Upscaled2x(n) ==
    [w |-> 2 * n.w, h |-> 2 * n.h, bits |-> n.bits, axes |-> n.axes,
     term |-> Term("external2x", <<>>, <<n.term>>)]

DoubleCall ==
    /\ steps < MaxSteps
    /\ \E self \in 1..Len(heap), inplace \in BOOLEAN :
        /\ Finish(double(heap, self, Upscaled2x(heap[self].clip), inplace))
        /\ last' = [op |-> "double", self |-> self, inplace |-> inplace,
                    pre |-> heap[self]]

CopyCall ==
    /\ steps < MaxSteps
    /\ \E self \in 1..Len(heap), sx \in {NoneV, <<1, 4>>} :
        /\ Finish(copy(heap, self, NoneV, sx, NoneV, NoneV, NoneV))
        /\ last' = [op |-> "copy", self |-> self, inplace |-> FALSE,
                    pre |-> heap[self]]

Next == TransposeCall \/ CropCall \/ DoubleCall \/ CopyCall

Spec == Init /\ [][Next]_vars

\* The object a method call acted on: the receiver when in place, else the
\* returned copy.
Target == IF last.inplace THEN last.self ELSE ret.out[1]

Swapped(r, n) ==
    /\ n.sx = r.sy /\ n.sy = r.sx /\ n.sw = r.sh /\ n.sh = r.sw
    /\ n.clip.w = r.clip.h /\ n.clip.h = r.clip.w
    /\ n.clip.axes = <<r.clip.axes[2], r.clip.axes[1]>>

SameWindowAndOrientation(r, n) ==
    /\ Window(n) = Window(r)
    /\ n.clip.w = r.clip.w /\ n.clip.h = r.clip.h
    /\ n.clip.axes = r.clip.axes

\* C7: one transpose swaps sx with sy, sw with sh and the buffer's axes; a
\* second transpose of the same object restores the orientation and the
\* window of before the first.
C7_TransposeInvolution ==
    [][(last'.op = "transpose" /\ steps' = steps + 1) =>
         LET t == IF last'.inplace THEN last'.self ELSE ret'.out[1]
         IN  /\ Swapped(last'.pre, heap'[t])
             /\ (last.op = "transpose" /\ last'.self = Target) =>
                    SameWindowAndOrientation(last.pre, heap'[t])]_vars

\* A second transpose has just undone a first one on a ResClip whose window
\* and buffer are not symmetric.
C7_Witness ==
    /\ last.op = "transpose" /\ steps = 2
    /\ heap[Target].sx # heap[Target].sy
    /\ heap[Target].sw # heap[Target].sh
    /\ heap[Target].clip.w # heap[Target].clip.h
    /\ heap[Target].clip.term.refs[1].op = "Transpose"
    /\ heap[Target].clip.axes = <<"x", "y">>

\* C8: crop with four zero margins invokes no buffer crop and leaves the
\* receiver's buffer and window as they were; with inplace=False the
\* returned ResClip has the receiver's buffer and window.
C8_CropNoOp ==
    (last.op = "crop" /\ last.margins = <<0, 0, 0, 0>>) =>
        /\ calls = <<>>
        /\ heap[last.self] = last.pre
        /\ ~last.inplace =>
               /\ Len(ret.out) = 1
               /\ ret.out[1] # last.self
               /\ heap[ret.out[1]] = last.pre

C8_Witness ==
    /\ last.op = "crop" /\ last.margins = <<0, 0, 0, 0>> /\ ~last.inplace
    /\ heap[ret.out[1]].sx # R(0)

(* ---------------------- the descale machine (SpecDescale) -------------- *)

\* The kernels a caller names, with the shape arguments (b, c, taps).
KernelArgs ==
    { <<bicubic, R(0), <<1, 2>>, 3>>,
      <<<<"D", "e", "b", "i", "c", "u", "b", "i", "c">>, <<1, 3>>, <<1, 3>>, 3>>,
      <<<<"L", "A", "N", "C", "Z", "O", "S">>, R(0), <<1, 2>>, 4>>,
      <<spline36, R(0), <<1, 2>>, 3>>,
      <<<<"d", "e", "b", "i", "l", "i", "n", "e", "a", "r">>, R(0), <<1, 2>>, 3>>,
      <<<<"p", "o", "i", "n", "t">>, R(0), <<1, 2>>, 3>>,
      <<<<"B", "I", "C", "U", "B", "I", "C">>, R(0), <<1, 2>>, 3>>,
      <<<<"D", "e", "b", "i", "c", "u", "b", "i", "c">>, R(0), <<1, 2>>, 3>>,
      <<<<"d", "e", "d", "e", "b", "i", "c", "u", "b", "i", "c">>, R(0), <<1, 2>>, 3>> }

\* Source rectangles: (src_left, src_top, src_width, src_height).
SrcRects ==
    { <<R(0), R(0), NoneV, NoneV>>,
      <<<<1, 4>>, R(0), <<3, 2>>, NoneV>>,
      <<R(0), <<-1, 2>>, NoneV, <<7, 4>>>>,
      <<<<1, 2>>, <<1, 3>>, R(1), R(2)>> }

\* Target sizes of a descale.
Targets == 1..2

InitDescale ==
    /\ InitHeap(Dims, Dims, Depths)
    /\ ret = NoReturn
    /\ calls = <<>>
    /\ last = [op |-> "init"]
    /\ steps = 0

\* The clip arguments a caller can pass: a ResClip it holds, or its node.
ClipArgs == {ResArg(i) : i \in 1..Len(heap)} \cup {NodeArg(heap[i].clip) : i \in 1..Len(heap)}

\* The ResClip a call works on once a raw node has been wrapped.
Receiver(clip) ==
    IF clip.isNode THEN ResClip(clip.node, R(0), R(0), NoneV, NoneV) ELSE heap[clip.id]

DescaleCall ==
    /\ steps = 0
    /\ \E clip \in ClipArgs, width \in Targets, height \in Targets,
       k \in KernelArgs, src \in SrcRects, with_diff \in BOOLEAN :
        /\ Finish(descale(heap, clip, width, height, k[1], k[2], k[3], k[4],
                          src[1], src[2], src[3], src[4], with_diff))
        /\ last' = [op |-> "descale", clip |-> clip, pre |-> Receiver(clip),
                    width |-> width, height |-> height, kernel |-> k[1],
                    b |-> k[2], c |-> k[3], taps |-> k[4], src |-> src,
                    with_diff |-> with_diff, heap0 |-> heap]

NextDescale == DescaleCall

SpecDescale == InitDescale /\ [][NextDescale]_vars

Returned(i) == heap[ret.out[i]]

DefaultRect == last.src = <<R(0), R(0), NoneV, NoneV>>

\* C1 as stated: for descale with the default source rectangle on any
\* ResClip with sx = sy = 0, the returned window is (0, 0, width, height).
C1_AsStated ==
    (last.op = "descale" /\ ret.err = <<>> /\ DefaultRect
        /\ last.pre.sx = R(0) /\ last.pre.sy = R(0)) =>
        Window(Returned(1)) = <<R(0), R(0), R(last.width), R(last.height)>>

\* C1 amended: for descale with the default source rectangle on a ResClip
\* with sx = sy = 0 whose sw and sh are the buffer's pixel width and height,
\* the returned window is (0, 0, width, height).
C1_FullWindowProjection ==
    (last.op = "descale" /\ ret.err = <<>> /\ DefaultRect
        /\ last.pre.sx = R(0) /\ last.pre.sy = R(0)
        /\ last.pre.sw = R(last.pre.clip.w) /\ last.pre.sh = R(last.pre.clip.h)) =>
        Window(Returned(1)) = <<R(0), R(0), R(last.width), R(last.height)>>

\* A ResClip with the full default window has been descaled to another size.
C1_Witness ==
    /\ last.op = "descale" /\ ret.err = <<>> /\ DefaultRect
    /\ ~last.clip.isNode
    /\ Window(last.pre) = <<R(0), R(0), R(last.pre.clip.w), R(last.pre.clip.h)>>
    /\ last.width # last.pre.clip.w /\ last.height # last.pre.clip.h
    /\ last.width # last.height

\* C6: descale with with_diff=True returns two ResClips: the width x height
\* downscaled plane with the projected window, and a difference plane of the
\* input plane's pixel dimensions whose window is the input's, unchanged.
C6_DiffPair ==
    (last.op = "descale" /\ last.with_diff /\ ret.err = <<>>) =>
        LET src_width  == IF last.src[3] = NoneV THEN R(last.width) ELSE last.src[3]
            src_height == IF last.src[4] = NoneV THEN R(last.height) ELSE last.src[4]
            rw == RDiv(src_width, R(last.pre.clip.w))
            rh == RDiv(src_height, R(last.pre.clip.h))
        IN  /\ Len(ret.out) = 2 /\ ret.nodes = <<>>
            /\ Returned(1).clip.w = last.width
            /\ Returned(1).clip.h = last.height
            /\ Returned(1).sx = RAdd(last.src[1], RMul(rw, last.pre.sx))
            /\ Returned(1).sy = RAdd(last.src[2], RMul(rh, last.pre.sy))
            /\ Returned(1).sw = RMul(rw, last.pre.sw)
            /\ Returned(1).sh = RMul(rh, last.pre.sh)
            /\ Returned(2).clip.w = last.pre.clip.w
            /\ Returned(2).clip.h = last.pre.clip.h
            /\ Window(Returned(2)) = Window(last.pre)

\* A with_diff descale whose projected window differs from the input's.
C6_Witness ==
    /\ last.op = "descale" /\ last.with_diff /\ ret.err = <<>>
    /\ Len(ret.out) = 2
    /\ Window(Returned(1)) # Window(Returned(2))
    /\ last.pre.sx # R(0) /\ last.pre.sw # R(last.pre.clip.w)
    /\ Returned(2).clip.w # Returned(1).clip.w

KnownKernels == {bilinear, bicubic, lanczos, spline16, spline36, spline64}

DownscalePrimitives ==
    { "descale.Debilinear", "descale.Debicubic", "descale.Delanczos",
      "descale.Despline16", "descale.Despline36", "descale.Despline64" }

UpscalePrimitives ==
    { "resize.Bilinear", "resize.Bicubic", "resize.Lanczos",
      "resize.Spline16", "resize.Spline36", "resize.Spline64" }

Invoked(fns) == \E i \in 1..Len(calls) : calls[i] \in fns

\* C12: descale raises exactly when the normalized kernel name is not one of
\* the six known kernels; the error names that kernel, no ResClip is
\* returned, and neither a downscale nor an upscale primitive has been
\* invoked.  In particular no call resolves the downscaler and then fails on
\* the upscaler.
C12_UnknownKernel ==
    last.op = "descale" =>
        LET kernel == NormalizeKernel(last.kernel)
        IN  /\ (ret.err # <<>>) <=> (kernel \notin KnownKernels)
            /\ (ret.err # <<>>) =>
                   /\ ret.err = <<"ValueError", "invalid kernel specified: ", kernel>>
                   /\ ret.out = <<>> /\ ret.nodes = <<>>
                   /\ ~Invoked(DownscalePrimitives \cup UpscalePrimitives)

\* descale with with_diff=True was given the kernel "point" and raised.
C12_Witness ==
    /\ last.op = "descale" /\ last.with_diff
    /\ NormalizeKernel(last.kernel) = <<"p", "o", "i", "n", "t">>
    /\ ret.err = InvalidKernel(<<"p", "o", "i", "n", "t">>)
    /\ calls = <<"ShufflePlanes", "bitdepth">>

\* C14: the window of the downscaled ResClip that descale returns is
\* sx' = src_left + rw*sx, sw' = rw*sw, sy' = src_top + rh*sy, sh' = rh*sh
\* with rw = src_width / buffer pixel width and rh = src_height / buffer
\* pixel height, whatever the window of the input is.
C14_WindowProjection ==
    (last.op = "descale" /\ ret.err = <<>>) =>
        LET src_width  == IF last.src[3] = NoneV THEN R(last.width) ELSE last.src[3]
            src_height == IF last.src[4] = NoneV THEN R(last.height) ELSE last.src[4]
            rw == RDiv(src_width, R(last.pre.clip.w))
            rh == RDiv(src_height, R(last.pre.clip.h))
        IN  Window(Returned(1)) =
                << RAdd(last.src[1], RMul(rw, last.pre.sx)),
                   RAdd(last.src[2], RMul(rh, last.pre.sy)),
                   RMul(rw, last.pre.sw),
                   RMul(rh, last.pre.sh) >>

\* A ResClip whose window size differs from its buffer's pixel size on both
\* axes, and whose offsets are not zero, has been descaled with an explicit
\* source rectangle.
C14_Witness ==
    /\ last.op = "descale" /\ ret.err = <<>> /\ ~last.clip.isNode
    /\ last.pre.sw # R(last.pre.clip.w) /\ last.pre.sh # R(last.pre.clip.h)
    /\ last.pre.sy # R(0)
    /\ last.src[3] # NoneV /\ last.src[4] # NoneV
    /\ Window(Returned(1)) # Window(last.pre)

\* C17 as stated: with with_diff=True and an input whose bit depth is not 32,
\* the difference plane descale returns has the input's bit depth.
C17_DiffDepthRestored ==
    (last.op = "descale" /\ last.with_diff /\ ret.err = <<>>
        /\ last.pre.clip.bits # 32) =>
        Returned(2).clip.bits = last.pre.clip.bits

(* --------------------- the fdescale machine (SpecFdescale) ------------- *)

\* The widths and heights of the luma planes handed to fdescale.
FWidths == 1..MaxLuma

FHeights == {7, 30, 41}

\* The ratios a caller passes, the rejected ones included.
Ratios == { <<1, 4>>, <<1, 3>>, <<1, 2>>, <<2, 3>>, <<9, 10>>,
            R(0), R(1), <<-1, 2>>, <<3, 2>> }

BaseWidths == { NoneV, <<5>>, <<20>> }

BaseHeights == { NoneV, <<9>> }

\* The kernels handed to fdescale: one that resolves and one that does not.
FKernels == { k \in KernelArgs : k[1] \in {bicubic, <<"p", "o", "i", "n", "t">>} }

InitFdescale ==
    /\ \E w \in FWidths, h \in FHeights, win \in {<<R(0), R(0), NoneV, NoneV>>, <<<<1, 2>>, R(1), R(2), <<5, 2>>>>} :
           heap = <<ResClip(SourceNode(1, w, h, 8), win[1], win[2], win[3], win[4])>>
    /\ ret = NoReturn
    /\ calls = <<>>
    /\ last = [op |-> "init"]
    /\ steps = 0

FdescaleCall ==
    /\ steps = 0
    /\ \E clip \in ClipArgs, ratio \in Ratios, base_width \in BaseWidths,
       base_height \in BaseHeights, src \in {SrcRect \in SrcRects : SrcRect[1] = R(0)},
       k \in FKernels, with_diff \in BOOLEAN :
        /\ Finish(fdescale(heap, clip, ratio, base_width, base_height,
                           k[1], k[2], k[3], k[4],
                           src[1], src[2], src[3], src[4], with_diff))
        /\ last' = [op |-> "fdescale", clip |-> clip, pre |-> Receiver(clip),
                    ratio |-> ratio, base_width |-> base_width,
                    base_height |-> base_height, src |-> src,
                    kernel |-> k[1], with_diff |-> with_diff, heap0 |-> heap]

NextFdescale == FdescaleCall

SpecFdescale == InitFdescale /\ [][NextFdescale]_vars

\* What fdescale handed to descale, read off the downscaled plane it returns:
\* its pixel size is (width, height).
FWidth  == Returned(1).clip.w
FHeight == Returned(1).clip.h
FSrcWidth  == RMul(R(last.pre.clip.w), last.ratio)
FSrcHeight == RMul(R(last.pre.clip.h), last.ratio)

FdescaleReturned == last.op = "fdescale" /\ ret.err = <<>>

DefaultBases == last.base_width = NoneV /\ last.base_height = NoneV

\* C2 as stated: with the default bases, width is within 1 pixel of
\* src_width and height within 1 pixel of src_height.
C2_AsStated ==
    (FdescaleReturned /\ DefaultBases) =>
        /\ RLe(RAbs(RSub(R(FWidth), FSrcWidth)), R(1))
        /\ RLe(RAbs(RSub(R(FHeight), FSrcHeight)), R(1))

\* C2 amended: with the default bases, width exceeds src_width by less than
\* 2 pixels and is never below it (height and src_height likewise).
C2_WithinTwo ==
    (FdescaleReturned /\ DefaultBases) =>
        /\ RLe(FSrcWidth, R(FWidth)) /\ RLt(RSub(R(FWidth), FSrcWidth), R(2))
        /\ RLe(FSrcHeight, R(FHeight)) /\ RLt(RSub(R(FHeight), FSrcHeight), R(2))

\* A default-base fdescale whose width is more than a pixel above src_width.
C2_Witness ==
    /\ FdescaleReturned /\ DefaultBases
    /\ RLt(R(1), RSub(R(FWidth), FSrcWidth))
    /\ RLt(R(16), FSrcWidth) /\ ~RIsInt(FSrcWidth)

\* The smallest integer >= src with the parity of base.
SmallestWithParity(size, src, base) ==
    /\ RLe(src, R(size))
    /\ (size - base) % 2 = 0
    /\ RLt(R(size - 2), src)

\* The smallest multiple of align that is >= src.
NextMultiple(m, src, align) ==
    /\ m % align = 0
    /\ RLe(src, R(m))
    /\ RLt(R(m - align), src)

\* C3: the width handed to descale is the smallest integer >= src_width with
\* the parity of base_width; a defaulted base_width is the smallest multiple
\* of 16 that is >= src_width, and then width <= base_width.  Height likewise
\* with base_height and multiples of 18.
C3_Parity ==
    FdescaleReturned =>
        /\ IF last.base_width = NoneV
           THEN \E m \in 0..(FWidth + 16) :
                    /\ NextMultiple(m, FSrcWidth, 16)
                    /\ SmallestWithParity(FWidth, FSrcWidth, m)
                    /\ FWidth <= m
           ELSE SmallestWithParity(FWidth, FSrcWidth, last.base_width[1])
        /\ IF last.base_height = NoneV
           THEN \E m \in 0..(FHeight + 18) :
                    /\ NextMultiple(m, FSrcHeight, 18)
                    /\ SmallestWithParity(FHeight, FSrcHeight, m)
                    /\ FHeight <= m
           ELSE SmallestWithParity(FHeight, FSrcHeight, last.base_height[1])

\* An fdescale with a given odd base_width below src_width and a defaulted
\* base_height above 18.
C3_Witness ==
    /\ FdescaleReturned
    /\ last.base_width = <<5>> /\ RLt(R(5), FSrcWidth)
    /\ FWidth % 2 = 1
    /\ last.base_height = NoneV /\ FHeight > 18

\* What fdescale returns for the last call's plane, ratio, bases and kernel
\* when the input has the default window and no src_* argument is passed.
FdescaleOfPlane ==
    fdescale(<<ResClip(last.pre.clip, R(0), R(0), NoneV, NoneV)>>, ResArg(1),
             last.ratio, last.base_width, last.base_height, last.kernel,
             R(0), <<1, 2>>, 3, R(0), R(0), NoneV, NoneV, last.with_diff)

\* C22: the window of the ResClip fdescale returns is
\* ((width - src_width)/2, (height - src_height)/2, src_width, src_height)
\* with src_width = lumaWidth*ratio and src_height = lumaHeight*ratio; the
\* margins are in [0, 1); and the window is the one returned for the same
\* plane with the default window and no src_* argument.
C22_WindowIndependence ==
    FdescaleReturned =>
        LET left == RDiv(RSub(R(FWidth), FSrcWidth), R(2))
            top  == RDiv(RSub(R(FHeight), FSrcHeight), R(2))
        IN  /\ Window(Returned(1)) = <<left, top, FSrcWidth, FSrcHeight>>
            /\ RLe(R(0), left) /\ RLt(left, R(1))
            /\ RLe(R(0), top) /\ RLt(top, R(1))
            /\ Window(Returned(1)) =
                   Window(FdescaleOfPlane.h[FdescaleOfPlane.out[1]])

\* fdescale ran on a ResClip with a window of its own and with src_top and
\* src_height passed, and returned a window with nonzero margins.
C22_Witness ==
    /\ FdescaleReturned /\ ~last.clip.isNode
    /\ Window(last.pre) # <<R(0), R(0), R(last.pre.clip.w), R(last.pre.clip.h)>>
    /\ last.src[2] # R(0) /\ last.src[4] # NoneV
    /\ RLt(R(0), Returned(1).sx) /\ RLt(R(0), Returned(1).sy)

RatioError == <<"ValueError", "fdescale: ratio must be within (0, 1)">>

\* C11: fdescale raises its ratio error exactly when ratio <= 0 or
\* ratio >= 1, and then it has extracted no plane, called no primitive,
\* created no ResClip and returned nothing.
C11_RatioValidation ==
    last.op = "fdescale" =>
        LET outside == RLe(last.ratio, R(0)) \/ RLe(R(1), last.ratio)
        IN  /\ (ret.err = RatioError) <=> outside
            /\ outside =>
                   /\ calls = <<>>
                   /\ heap = last.heap0
                   /\ ret.out = <<>> /\ ret.nodes = <<>>

\* fdescale was called with ratio exactly 1 and raised.
C11_Witness ==
    /\ last.op = "fdescale" /\ last.ratio = R(1)
    /\ ret.err = RatioError /\ calls = <<>>

(* --------------------- the bdescale machine (SpecBdescale) ------------- *)

\* The borders a caller asks for: (left, right, top, bottom).
Borders ==
    { <<0, 0, 0, 0>>, <<1, 0, 0, 0>>, <<0, 2, 1, 0>>, <<1, 1, 1, 1>>, <<0, 0, 0, 3>> }

\* Source rectangles of a bdescale; some make a computed border negative.
BSrcRects ==
    SrcRects \cup { <<R(2), <<5, 2>>, NoneV, NoneV>>, <<R(-3), <<-1, 3>>, <<1, 2>>, <<2, 3>>>> }

Colors == { NoneV, R(0) }

BKernels == { k \in KernelArgs : k[1] \in {bicubic, spline36, <<"p", "o", "i", "n", "t">>} }

InitBdescale ==
    /\ InitHeap(Dims, Dims, {8})
    /\ ret = NoReturn
    /\ calls = <<>>
    /\ last = [op |-> "init"]
    /\ steps = 0

BdescaleCall ==
    /\ steps = 0
    /\ \E clip \in ClipArgs, width \in Targets, height \in Targets,
       k \in BKernels, src \in BSrcRects, m \in Borders, color \in Colors,
       with_diff \in BOOLEAN :
        /\ Finish(bdescale(heap, clip, width, height, k[1], k[2], k[3], k[4],
                           src[1], src[2], src[3], src[4],
                           m[1], m[2], m[3], m[4], color, with_diff))
        /\ last' = [op |-> "bdescale", clip |-> clip, pre |-> Receiver(clip),
                    width |-> width, height |-> height, kernel |-> k[1],
                    b |-> k[2], c |-> k[3], taps |-> k[4], src |-> src,
                    borders |-> m, color |-> color, with_diff |-> with_diff]

NextBdescale == BdescaleCall

SpecBdescale == InitBdescale /\ [][NextBdescale]_vars

BdescaleReturned == last.op = "bdescale" /\ ret.err = <<>>

\* C4: with at least one nonzero border, the downscaled plane bdescale
\* returns is width x height pixels, and with with_diff the difference
\* plane has the pixel dimensions of the input plane.
C4_OutputExtent ==
    (BdescaleReturned /\ last.borders # <<0, 0, 0, 0>>) =>
        /\ Len(ret.nodes) = (IF last.with_diff THEN 2 ELSE 1)
        /\ ret.nodes[1].w = last.width /\ ret.nodes[1].h = last.height
        /\ last.with_diff =>
               /\ ret.nodes[2].w = last.pre.clip.w
               /\ ret.nodes[2].h = last.pre.clip.h

\* A bordered bdescale with with_diff that cropped both planes, one computed
\* border having been clamped to zero.
C4_Witness ==
    /\ BdescaleReturned /\ last.with_diff
    /\ last.borders = <<1, 1, 1, 1>>
    /\ Len(calls) >= 2
    /\ calls[Len(calls)] = "Crop" /\ calls[Len(calls) - 1] = "Crop"
    /\ ret.nodes[1].term.args[1] = 0
    /\ ret.nodes[1].term.args[2] > 0

\* What descale returns for the arguments of the last bdescale call.
DescaleOfLast ==
    descale(<<last.pre>>, ResArg(1), last.width, last.height, last.kernel, last.b,
            last.c, last.taps, last.src[1], last.src[2], last.src[3], last.src[4],
            last.with_diff)

\* C5: with four zero borders bdescale returns the buffers descale returns
\* for the same arguments (one, or down and diff), raises what descale raises,
\* and adds or crops no border.
C5_ZeroBorderEquivalence ==
    (last.op = "bdescale" /\ last.borders = <<0, 0, 0, 0>>) =>
        /\ ret.err = DescaleOfLast.err
        /\ ret.nodes = Clips(DescaleOfLast.h, DescaleOfLast.out)
        /\ ret.out = <<>>
        /\ calls = DescaleOfLast.calls
        /\ \A i \in 1..Len(calls) : calls[i] \notin {"AddBorders", "Crop"}
        /\ ret.err = <<>> => Len(ret.nodes) = (IF last.with_diff THEN 2 ELSE 1)

\* A zero-border bdescale with with_diff and a source rectangle of its own.
C5_Witness ==
    /\ BdescaleReturned /\ last.borders = <<0, 0, 0, 0>>
    /\ last.with_diff /\ Len(ret.nodes) = 2
    /\ last.src[1] # R(0) /\ last.src[3] # NoneV

\* The argument tuples of every invocation of a primitive in ops that a
\* node was computed from.
RECURSIVE OpArgs(_, _)
OpArgs(t, ops) ==
    (IF t.op \in ops THEN {t.args} ELSE {})
        \cup UNION { OpArgs(t.refs[i], ops) : i \in 1..Len(t.refs) }

Bordered == BdescaleReturned /\ last.borders # <<0, 0, 0, 0>>

LastSrcWidth == IF last.src[3] = NoneV THEN R(last.width) ELSE last.src[3]

LastSrcHeight == IF last.src[4] = NoneV THEN R(last.height) ELSE last.src[4]

\* extra_left, extra_right, extra_top, extra_bottom of the last call, as
\* first computed.
ExtraLeft == RSub(RMul(R(last.borders[1]), RDiv(LastSrcWidth, R(last.pre.clip.w))), last.src[1])

ExtraRight == RSub(RAdd(RAdd(RMul(R(last.borders[2]), RDiv(LastSrcWidth, R(last.pre.clip.w))), last.src[1]), LastSrcWidth), R(last.width))

ExtraTop == RSub(RMul(R(last.borders[3]), RDiv(LastSrcHeight, R(last.pre.clip.h))), last.src[2])

ExtraBottom == RSub(RAdd(RAdd(RMul(R(last.borders[4]), RDiv(LastSrcHeight, R(last.pre.clip.h))), last.src[2]), LastSrcHeight), R(last.height))

ClampedCeil(x) == IF Ceil(x) < 0 THEN 0 ELSE Ceil(x)

\* The integer borders (left, right, top, bottom) computed by the last call.
ExtraInts == <<ClampedCeil(ExtraLeft), ClampedCeil(ExtraRight), ClampedCeil(ExtraTop), ClampedCeil(ExtraBottom)>>

\* The arguments the descale primitive was invoked with by the last call.
DescalerArgs == CHOOSE a \in OpArgs(ret.nodes[1].term, DownscalePrimitives) : TRUE

\* C16 as stated: on the non-zero-border path the borders added to the luma
\* plane before descaling are the computed integer borders.
C16_AsStated ==
    Bordered =>
        \A n \in 1..Len(ret.nodes) :
            OpArgs(ret.nodes[n].term, {"AddBorders"}) = { ExtraInts \o last.color }

\* C16 amended: on the non-zero-border path the borders added to the luma
\* plane before descaling are the caller's left, right, top, bottom, filled
\* with color; the computed integer borders enlarge the descale target and
\* are what is cropped from the downscaled plane.
C16_CallerBordersInserted ==
    Bordered =>
        /\ \A n \in 1..Len(ret.nodes) :
               OpArgs(ret.nodes[n].term, {"AddBorders"}) = { last.borders \o last.color }
        /\ calls[1] = "ShufflePlanes" /\ calls[2] = "AddBorders"
        /\ DescalerArgs[1] = last.width + ExtraInts[1] + ExtraInts[2]
        /\ DescalerArgs[2] = last.height + ExtraInts[3] + ExtraInts[4]
        /\ OpArgs(ret.nodes[1].term, {"Crop"}) =
               (IF ExtraInts = <<0, 0, 0, 0>> THEN {} ELSE {ExtraInts})

\* A bordered bdescale whose computed integer borders differ from the
\* borders the caller asked for.
C16_Witness ==
    /\ Bordered /\ last.borders = <<0, 2, 1, 0>>
    /\ ExtraInts # last.borders /\ ExtraInts # <<0, 0, 0, 0>>
    /\ last.color # NoneV

\* C18: on the non-zero-border path the four integer borders are >= 0 and
\* are ceil(extra) clamped at 0; the source offsets handed to the descaler
\* are extraInt - extra, with extra reduced by ceil(extra) when that was
\* negative, and lie in [0, 1); the right/bottom extras enter the source
\* size unadjusted.
C18_Clamping ==
    Bordered =>
        LET left  == IF Ceil(ExtraLeft) < 0 THEN RSub(ExtraLeft, R(Ceil(ExtraLeft))) ELSE ExtraLeft
            top   == IF Ceil(ExtraTop) < 0 THEN RSub(ExtraTop, R(Ceil(ExtraTop))) ELSE ExtraTop
            src_left == <<DescalerArgs[3], DescalerArgs[4]>>
            src_top  == <<DescalerArgs[5], DescalerArgs[6]>>
            src_width  == <<DescalerArgs[7], DescalerArgs[8]>>
            src_height == <<DescalerArgs[9], DescalerArgs[10]>>
        IN  /\ \A a \in OpArgs(ret.nodes[1].term, {"Crop"}) :
                   /\ a = ExtraInts
                   /\ \A i \in 1..4 : a[i] >= 0
            /\ DescalerArgs[1] = last.width + ExtraInts[1] + ExtraInts[2]
            /\ DescalerArgs[2] = last.height + ExtraInts[3] + ExtraInts[4]
            /\ src_left = RSub(R(ExtraInts[1]), left)
            /\ src_top = RSub(R(ExtraInts[3]), top)
            /\ RLe(R(0), src_left) /\ RLt(src_left, R(1))
            /\ RLe(R(0), src_top) /\ RLt(src_top, R(1))
            /\ src_width = RAdd(RAdd(left, ExtraRight), R(last.width))
            /\ src_height = RAdd(RAdd(top, ExtraBottom), R(last.height))

\* A bordered bdescale in which ceil(extra_left) and ceil(extra_top) were
\* negative, extra_left leaving a fractional remainder: the left border is
\* clamped to 0 and the descaler is handed src_left = 1/2.
C18_Witness ==
    /\ Bordered
    /\ Ceil(ExtraLeft) < 0 /\ ~RIsInt(ExtraLeft)
    /\ Ceil(ExtraTop) < 0
    /\ <<DescalerArgs[3], DescalerArgs[4]>> = <<1, 2>>

(* ----------------------- the repair machine (SpecRepair) --------------- *)

\* The modes a caller passes, unsupported ones included.
Modes == (-15)..15

Pixels == { NoneV, <<1, 2>>, R(1), <<-1, 4>>, <<3, 2>>, R(-2) }

InitRepair ==
    /\ \E w \in Dims, h \in Dims :
           heap = <<ResClip(SourceNode(1, w, h, 8), R(0), R(0), NoneV, NoneV),
                    ResClip(SourceNode(2, w, h, 8), R(0), R(0), NoneV, NoneV)>>
    /\ ret = NoReturn
    /\ calls = <<>>
    /\ last = [op |-> "init"]
    /\ steps = 0

RepairCall ==
    /\ steps = 0
    /\ \E i \in 1..Len(heap), j \in 1..Len(heap), mode \in Modes, pixel \in Pixels :
        /\ Finish(repair(heap, heap[i].clip, heap[j].clip, mode, pixel))
        /\ last' = [op |-> "repair", clip |-> heap[i].clip,
                    repairclip |-> heap[j].clip, mode |-> mode, pixel |-> pixel]

NextRepair == RepairCall

SpecRepair == InitRepair /\ [][NextRepair]_vars

\* What a call returned or raised, and the primitives it invoked.
Result(o) == <<o.nodes, o.err, o.calls>>

\* C9: for every supported mode m, repair(clip, ref, mode=-m, pixel) gives
\* what repair(ref, clip, mode=m, pixel) gives.
C9_RepairNegation ==
    (last.op = "repair" /\ (-last.mode) \in mode_list) =>
        /\ <<ret.nodes, ret.err, calls>> =
               Result(repair(heap, last.repairclip, last.clip, -last.mode, last.pixel))
        /\ ret.err = <<>> =>
               ret.nodes[1].term.refs = <<last.repairclip.term, last.clip.term>>

\* A negative supported mode on two different planes, with a sub-pixel shift.
C9_Witness ==
    /\ last.op = "repair" /\ last.mode = -12
    /\ last.clip # last.repairclip
    /\ last.pixel = <<1, 2>>
    /\ ret.err = <<>> /\ Len(ret.nodes) = 1

\* C10: with mode 0 repair returns clip itself, for every reference plane and
\* every pixel argument, builds no expression and raises nothing.
C10_RepairIdentity ==
    (last.op = "repair" /\ last.mode = 0) =>
        /\ ret.nodes = <<last.clip>>
        /\ ret.err = <<>>
        /\ calls = <<>>

\* Mode 0 with a pixel argument the other modes reject.
C10_Witness ==
    /\ last.op = "repair" /\ last.mode = 0
    /\ last.pixel = <<3, 2>>
    /\ last.clip # last.repairclip
    /\ ret.nodes = <<last.clip>>

(* ------------------ the interpolate machine (SpecInterpolate) ---------- *)

\* Filters a caller passes as nnedi3 and as eedi3.
FastFilters == { NoneV, <<"nnedi3cl.NNEDI3CL">> }

EdgeFilters == { NoneV, <<"eedi3m.EEDI3">> }

Fields == { NoneV, <<0>>, <<1>> }

\* Windows with a positive, a zero and a negative vertical offset.
IWindows == Windows \cup { <<R(0), <<-1, 4>>, NoneV, NoneV>> }

InitInterpolate ==
    /\ \E w \in Dims, h \in Dims, win \in IWindows :
           heap = <<ResClip(SourceNode(1, w, h, 8), win[1], win[2], win[3], win[4])>>
    /\ ret = NoReturn
    /\ calls = <<>>
    /\ last = [op |-> "init"]
    /\ steps = 0

InterpolateCall ==
    /\ steps = 0
    /\ \E clip \in ClipArgs, nnedi3 \in FastFilters, eedi3 \in EdgeFilters,
       field \in Fields, dh \in BOOLEAN, with_nn \in BOOLEAN :
        /\ Finish(interpolate(heap, clip, nnedi3, eedi3, field, dh, with_nn))
        /\ last' = [op |-> "interpolate", clip |-> clip, pre |-> Receiver(clip),
                    nnedi3 |-> nnedi3, eedi3 |-> eedi3, field |-> field,
                    dh |-> dh, with_nn |-> with_nn, heap0 |-> heap]

Ee2xCall ==
    /\ steps = 0
    /\ \E clip \in ClipArgs, nnedi3 \in FastFilters, eedi3 \in EdgeFilters,
       with_nn \in BOOLEAN :
        /\ Finish(ee2x(heap, clip, nnedi3, eedi3, with_nn))
        /\ last' = [op |-> "ee2x", clip |-> clip, pre |-> Receiver(clip),
                    nnedi3 |-> nnedi3, eedi3 |-> eedi3, field |-> NoneV,
                    dh |-> TRUE, with_nn |-> with_nn, heap0 |-> heap]

Aa2xCall ==
    /\ steps = 0
    /\ \E clip \in ClipArgs, nnedi3 \in FastFilters, eedi3 \in EdgeFilters :
        /\ Finish(aa2x(heap, clip, nnedi3, eedi3))
        /\ last' = [op |-> "aa2x", clip |-> clip, pre |-> Receiver(clip),
                    nnedi3 |-> nnedi3, eedi3 |-> eedi3, field |-> NoneV,
                    dh |-> TRUE, with_nn |-> FALSE, heap0 |-> heap]

NextInterpolate == InterpolateCall \/ Ee2xCall \/ Aa2xCall

SpecInterpolate == InitInterpolate /\ [][NextInterpolate]_vars

Ee2xError == <<"ValueError", "ee2x: both nnedi3 and eedi3 must be available">>

\* C13: ee2x raises its validation error whenever nnedi3 or eedi3 is None,
\* and then it has wrapped no clip, invoked no filter and no transpose, and
\* returned nothing.
C13_Ee2xValidation ==
    (last.op = "ee2x" /\ (last.nnedi3 = NoneV \/ last.eedi3 = NoneV)) =>
        /\ ret.err = Ee2xError
        /\ heap = last.heap0
        /\ calls = <<>>
        /\ ret.out = <<>> /\ ret.nodes = <<>>

\* ee2x was given a raw node and a fast filter but no edge-directed filter,
\* and raised.
C13_Witness ==
    /\ last.op = "ee2x" /\ last.clip.isNode
    /\ last.nnedi3 # NoneV /\ last.eedi3 = NoneV
    /\ ret.err = Ee2xError /\ Len(heap) = 1

\* The filter invocations a plane was computed from use no edge-directed
\* filter.
FastOnly(t) == OpArgs(t, {last.eedi3[1]}) = {}

\* C15 as stated: in the second pass of ee2x the edge-directed filter is
\* applied to the transposed edge-directed result of the first pass, its
\* sclip is the fast filter applied to the transposed fast-only result of the
\* first pass, and with with_nn=True the second element returned is that
\* fast-only plane.
C15_Ee2xDataFlow ==
    (last.op = "ee2x" /\ ret.err = <<>>) =>
        LET pass2 == Returned(1).clip.term.refs[1]
        IN  /\ pass2.op = last.eedi3[1]
            /\ pass2.refs[1].op = "Transpose"
            /\ pass2.refs[1].refs[1].op = last.eedi3[1]
            /\ pass2.refs[2].op = last.nnedi3[1]
            /\ FastOnly(pass2.refs[2])
            /\ last.with_nn =>
                   /\ Returned(2).clip.term = Term("Transpose", <<>>, <<pass2.refs[2]>>)
                   /\ FastOnly(Returned(2).clip.term)

InterpolateReturned == last.op = "interpolate" /\ ret.err = <<>>

\* C19: with dh=True every ResClip interpolate returns has sh' = 2*sh and
\* sy' = 2*sy + 1/2 - field, an unset field being 1 if sy > 0 and 0
\* otherwise; with dh=False sy and sh are unchanged; sx and sw are unchanged
\* in both cases, and two returned ResClips carry the same window.
C19_InterpolateWindow ==
    InterpolateReturned =>
        LET field == IF last.field # NoneV THEN last.field[1]
                     ELSE IF RLt(R(0), last.pre.sy) THEN 1 ELSE 0
        IN  /\ \A i \in 1..Len(ret.out) :
                   /\ Returned(i).sx = last.pre.sx
                   /\ Returned(i).sw = last.pre.sw
                   /\ last.dh =>
                          /\ Returned(i).sh = RMul(R(2), last.pre.sh)
                          /\ Returned(i).sy =
                                 RSub(RAdd(RMul(R(2), last.pre.sy), <<1, 2>>), R(field))
                   /\ ~last.dh =>
                          /\ Returned(i).sh = last.pre.sh
                          /\ Returned(i).sy = last.pre.sy
            /\ Len(ret.out) = 2 => Window(Returned(1)) = Window(Returned(2))

\* interpolate doubled the height of a ResClip with a positive vertical
\* offset, the field left unset, and returned two ResClips.
C19_Witness ==
    /\ InterpolateReturned /\ last.dh /\ last.field = NoneV
    /\ RLt(R(0), last.pre.sy) /\ ~last.clip.isNode
    /\ Len(ret.out) = 2
    /\ Returned(1).sy = RSub(RMul(R(2), last.pre.sy), <<1, 2>>)

\* The term of a plain invocation of filter f on the input buffer.
PlainRun(f, t) == t.op = f[1] /\ t.refs = <<last.pre.clip.term>>

\* C20: with both filters unset interpolate invokes only the default fast
\* filter; with exactly one given it invokes that one once, without sclip;
\* with both given it invokes the fast filter on the input buffer, then the
\* edge-directed filter on the same buffer with the fast filter's output as
\* sclip, and the edge-directed output is the first result.
C20_FilterSelection ==
    InterpolateReturned =>
        LET out == Returned(1).clip.term
        IN  /\ (last.nnedi3 = NoneV /\ last.eedi3 = NoneV) =>
                   /\ calls = <<"znedi3.nnedi3">>
                   /\ Len(ret.out) = 1 /\ PlainRun(get_nnedi3, out)
            /\ (last.nnedi3 # NoneV /\ last.eedi3 = NoneV) =>
                   /\ calls = <<last.nnedi3[1]>>
                   /\ Len(ret.out) = 1 /\ PlainRun(last.nnedi3, out)
            /\ (last.nnedi3 = NoneV /\ last.eedi3 # NoneV) =>
                   /\ calls = <<last.eedi3[1]>>
                   /\ Len(ret.out) = 1 /\ PlainRun(last.eedi3, out)
            /\ (last.nnedi3 # NoneV /\ last.eedi3 # NoneV) =>
                   /\ calls = <<last.nnedi3[1], last.eedi3[1]>>
                   /\ out.op = last.eedi3[1]
                   /\ Len(out.refs) = 2
                   /\ out.refs[1] = last.pre.clip.term
                   /\ PlainRun(last.nnedi3, out.refs[2])
                   /\ Len(ret.out) = (IF last.with_nn THEN 2 ELSE 1)
                   /\ last.with_nn => Returned(2).clip.term = out.refs[2]

\* interpolate was given both filters and ran the edge-directed one with the
\* fast one's output as sclip.
C20_Witness ==
    /\ InterpolateReturned
    /\ last.nnedi3 # NoneV /\ last.eedi3 # NoneV /\ ~last.with_nn
    /\ calls = <<"nnedi3cl.NNEDI3CL", "eedi3m.EEDI3">>
    /\ Len(Returned(1).clip.term.refs) = 2

\* The field interpolate picks for an offset when the caller leaves it unset.
FieldOf(offset) == IF RLt(R(0), offset) THEN 1 ELSE 0

\* One application of the per-axis doubling update to an offset.
DoubledOffset(offset, field) == RSub(RAdd(RMul(R(2), offset), <<1, 2>>), R(field))

\* The plane is in the orientation of the input, twice as wide and as high.
DoubledInPlace(n) ==
    /\ n.axes = last.pre.clip.axes
    /\ n.w = 2 * last.pre.clip.w /\ n.h = 2 * last.pre.clip.h

\* C21: aa2x returns one ResClip in the original orientation with
\* sw' = 2*sw, sh' = 2*sh, sy' = 2*sy + 1/2 - fy and sx' = 2*sx + 1/2 - fx,
\* fy being 1 if sy > 0 and 0 otherwise, fx likewise for sx.
C21_Aa2xWindow ==
    (last.op = "aa2x" /\ ret.err = <<>>) =>
        /\ Len(ret.out) = 1
        /\ DoubledInPlace(Returned(1).clip)
        /\ Returned(1).clip.term.op = "Transpose"
        /\ Window(Returned(1)) =
               << DoubledOffset(last.pre.sx, FieldOf(last.pre.sx)),
                  DoubledOffset(last.pre.sy, FieldOf(last.pre.sy)),
                  RMul(R(2), last.pre.sw), RMul(R(2), last.pre.sh) >>

\* aa2x ran on a ResClip with sx <= 0 < sy and a window narrower than its
\* buffer, on a buffer that is not square.
C21_Witness ==
    /\ last.op = "aa2x" /\ ret.err = <<>> /\ ~last.clip.isNode
    /\ RLe(last.pre.sx, R(0)) /\ RLt(R(0), last.pre.sy)
    /\ last.pre.sw # last.pre.sh
    /\ last.pre.clip.w # last.pre.clip.h
    /\ Len(calls) >= 4

\* What aa2x returns for the arguments of the last call.
Aa2xOfLast == aa2x(last.heap0, last.clip, last.nnedi3, last.eedi3)

\* C25: every ResClip ee2x returns is in the original orientation and has
\* sw' = 2*sw, sh' = 2*sh, sy' = 2*sy + 1/2 - fy (fy as in interpolate) and
\* sx' = 2*sx - 1/2; for sx <= 0 that sx' is not the one aa2x returns for the
\* same input.
C25_Ee2xWindow ==
    (last.op = "ee2x" /\ ret.err = <<>>) =>
        /\ Len(ret.out) = (IF last.with_nn THEN 2 ELSE 1)
        /\ \A i \in 1..Len(ret.out) :
               /\ DoubledInPlace(Returned(i).clip)
               /\ Window(Returned(i)) =
                      << RSub(RMul(R(2), last.pre.sx), <<1, 2>>),
                         DoubledOffset(last.pre.sy, FieldOf(last.pre.sy)),
                         RMul(R(2), last.pre.sw), RMul(R(2), last.pre.sh) >>
        /\ RLe(last.pre.sx, R(0)) =>
               Returned(1).sx # Aa2xOfLast.h[Aa2xOfLast.out[1]].sx
        /\ RLt(R(0), last.pre.sx) =>
               Window(Returned(1)) = Window(Aa2xOfLast.h[Aa2xOfLast.out[1]])

\* ee2x returned two ResClips for an input with sx <= 0.
C25_Witness ==
    /\ last.op = "ee2x" /\ ret.err = <<>> /\ last.with_nn
    /\ ~last.clip.isNode /\ RLt(last.pre.sx, R(0))
    /\ Len(ret.out) = 2
    /\ Returned(2).sx = RSub(RMul(R(2), last.pre.sx), <<1, 2>>)

\* Three spellings of the bicubic kernel.
BicubicSpellings ==
    { bicubic,
      <<"B", "I", "C", "U", "B", "I", "C">>,
      <<"D", "e", "b", "i", "c", "u", "b", "i", "c">> }

\* What descale does for the last call's arguments with the kernel spelled
\* 'bicubic'.
DescaleAsBicubic ==
    descale(last.heap0, last.clip, last.width, last.height, bicubic, last.b, last.c,
            last.taps, last.src[1], last.src[2], last.src[3], last.src[4], last.with_diff)

\* The downscale and upscale primitive of each kernel family.
KernelPairs ==
    { <<"descale.Debilinear", "resize.Bilinear">>,
      <<"descale.Debicubic", "resize.Bicubic">>,
      <<"descale.Delanczos", "resize.Lanczos">>,
      <<"descale.Despline16", "resize.Spline16">>,
      <<"descale.Despline36", "resize.Spline36">>,
      <<"descale.Despline64", "resize.Spline64">> }

\* The keyword arguments bound to a resampling primitive, read off the
\* invocation recorded in plane n: what follows the size and the source
\* rectangle.
BoundArgs(n, fn) ==
    LET a == CHOOSE a \in OpArgs(n.term, {fn}) : TRUE
    IN  SubSeq(a, 11, Len(a))

\* The names the resolvers are compared on.
ResolverNames ==
    KnownKernels \cup { NormalizeKernel(k[1]) : k \in KernelArgs }
        \cup { <<"D", "e", "b", "i", "c", "u", "b", "i", "c">>, <<>> }

\* C23: 'bicubic', 'BICUBIC' and 'Debicubic' make descale do the same thing;
\* _get_descaler and _get_scaler accept the same names; the two primitives
\* descale invokes are of one kernel family and are bound to the same shape
\* parameters: b, c for bicubic, taps for lanczos, none otherwise.
C23_KernelResolution ==
    last.op = "descale" =>
        /\ last.kernel \in BicubicSpellings =>
               /\ ret.err = <<>>
               /\ heap = DescaleAsBicubic.h
               /\ ret.out = DescaleAsBicubic.out
               /\ calls = DescaleAsBicubic.calls
        /\ \A k \in ResolverNames :
               (get_descaler(k, last.b, last.c, last.taps).err = <<>>)
                   <=> (get_scaler(k, last.b, last.c, last.taps).err = <<>>)
        /\ (last.with_diff /\ ret.err = <<>>) =>
               /\ <<calls[3], calls[4]>> \in KernelPairs
               /\ BoundArgs(Returned(1).clip, calls[3]) =
                      BoundArgs(Returned(2).clip, calls[4])
               /\ BoundArgs(Returned(1).clip, calls[3]) =
                      (IF calls[3] = "descale.Debicubic" THEN last.b \o last.c
                       ELSE IF calls[3] = "descale.Delanczos" THEN <<last.taps>>
                       ELSE <<>>)

\* descale with with_diff was given 'BICUBIC' and resolved the bicubic pair
\* with b = 0 and c = 1/2.
C23_Witness ==
    /\ last.op = "descale" /\ ret.err = <<>> /\ last.with_diff
    /\ last.kernel = <<"B", "I", "C", "U", "B", "I", "C">>
    /\ calls[3] = "descale.Debicubic" /\ calls[4] = "resize.Bicubic"
    /\ BoundArgs(Returned(2).clip, "resize.Bicubic") = <<0, 1, 1, 2>>

\* C24 as stated: on the non-zero-border path the ratio the inner descale
\* derives for the bordered plane, src_width' / (lumaWidth + left + right)
\* with src_width' = extraLeft + extraRight + width after any clamp
\* adjustment, equals the caller's src_width / lumaWidth, and likewise
\* vertically.
C24_RatioPreserved ==
    Bordered =>
        /\ RDiv(<<DescalerArgs[7], DescalerArgs[8]>>,
                R(last.pre.clip.w + last.borders[1] + last.borders[2]))
               = RDiv(LastSrcWidth, R(last.pre.clip.w))
        /\ RDiv(<<DescalerArgs[9], DescalerArgs[10]>>,
                R(last.pre.clip.h + last.borders[3] + last.borders[4]))
               = RDiv(LastSrcHeight, R(last.pre.clip.h))

\* The same, for the calls in which neither ceil(extra_left) nor
\* ceil(extra_top) is negative.
RatioPreservedUnclamped ==
    (Bordered /\ Ceil(ExtraLeft) >= 0 /\ Ceil(ExtraTop) >= 0) => C24_RatioPreserved

(* ------------- sequences of calls on shared ResClips (SpecCalls) -------- *)

\* The library functions, each called on a ResClip the caller holds, with
\* one choice of the other arguments.
LibDescale ==
    /\ steps < MaxSteps
    /\ \E self \in 1..Len(heap), with_diff \in BOOLEAN :
        /\ Finish(descale(heap, ResArg(self), 1, 2, bicubic, R(0), <<1, 2>>, 3,
                          <<1, 4>>, R(0), <<3, 2>>, NoneV, with_diff))
        /\ last' = [op |-> "descale", self |-> self, inplace |-> FALSE,
                    pre |-> heap[self]]

LibBdescale ==
    /\ steps < MaxSteps
    /\ \E self \in 1..Len(heap), m \in {<<0, 0, 0, 0>>, <<1, 0, 0, 1>>} :
        /\ Finish(bdescale(heap, ResArg(self), 1, 1, bicubic, R(0), <<1, 2>>, 3,
                           R(0), R(0), NoneV, NoneV, m[1], m[2], m[3], m[4],
                           NoneV, TRUE))
        /\ last' = [op |-> "bdescale", self |-> self, inplace |-> FALSE,
                    pre |-> heap[self]]

LibFdescale ==
    /\ steps < MaxSteps
    /\ \E self \in 1..Len(heap) :
        /\ Finish(fdescale(heap, ResArg(self), <<1, 2>>, NoneV, NoneV, bicubic,
                           R(0), <<1, 2>>, 3, R(0), R(0), NoneV, NoneV, TRUE))
        /\ last' = [op |-> "fdescale", self |-> self, inplace |-> FALSE,
                    pre |-> heap[self]]

LibInterpolate ==
    /\ steps < MaxSteps
    /\ \E self \in 1..Len(heap), eedi3 \in EdgeFilters :
        /\ Finish(interpolate(heap, ResArg(self), <<"nnedi3cl.NNEDI3CL">>, eedi3,
                              NoneV, TRUE, TRUE))
        /\ last' = [op |-> "interpolate", self |-> self, inplace |-> FALSE,
                    pre |-> heap[self]]

LibAa2x ==
    /\ steps < MaxSteps
    /\ \E self \in 1..Len(heap) :
        /\ Finish(aa2x(heap, ResArg(self), NoneV, NoneV))
        /\ last' = [op |-> "aa2x", self |-> self, inplace |-> FALSE,
                    pre |-> heap[self]]

LibEe2x ==
    /\ steps < MaxSteps
    /\ \E self \in 1..Len(heap) :
        /\ Finish(ee2x(heap, ResArg(self), <<"nnedi3cl.NNEDI3CL">>, <<"eedi3m.EEDI3">>,
                       TRUE))
        /\ last' = [op |-> "ee2x", self |-> self, inplace |-> FALSE,
                    pre |-> heap[self]]

NextCalls ==
    \/ TransposeCall \/ CropCall \/ DoubleCall \/ CopyCall
    \/ LibDescale \/ LibBdescale \/ LibFdescale
    \/ LibInterpolate \/ LibAa2x \/ LibEe2x

\* One ResClip on a 2 x 3 buffer, with the default window or one of its own.
InitCalls ==
    /\ \E win \in {<<R(0), R(0), NoneV, NoneV>>, <<R(-1), <<1, 2>>, <<5, 2>>, NoneV>>} :
           heap = <<ResClip(SourceNode(1, 2, 3, 8), win[1], win[2], win[3], win[4])>>
    /\ ret = NoReturn
    /\ calls = <<>>
    /\ last = [op |-> "init"]
    /\ steps = 0

SpecCalls == InitCalls /\ [][NextCalls]_vars

\* The ResClips a call may change: the receiver of an in-place transpose,
\* crop or double, and nothing else.
MayChange(l) ==
    IF l.op \in {"transpose", "crop", "double"} /\ l.inplace THEN {l.self} ELSE {}

\* C26: in any sequence of calls, a call leaves the buffer and the window
\* of every ResClip that existed before it as they were, the receiver of an
\* in-place transpose, crop or double excepted; what aa2x, ee2x and bdescale
\* transpose or crop are ResClips created within the call.
C26_NoCallerMutation ==
    [][steps' = steps + 1 =>
         /\ Len(heap') >= Len(heap)
         /\ \A i \in 1..Len(heap) : i \notin MayChange(last') => heap'[i] = heap[i]]_vars

\* aa2x has run, as a second call, on a ResClip that an earlier library
\* call returned; it transposed two ResClips of its own and its argument is
\* as it was.
C26_Witness ==
    /\ steps = 2 /\ last.op = "aa2x" /\ last.self > 1
    /\ Len(heap) >= last.self + 2
    /\ heap[last.self] = last.pre
    /\ heap[Len(heap)].clip.term.op = "Transpose"

====
